---- MODULE Spec2Model ----
(***************************************************************************)
(* Character-sequence similarity and distance metrics of                   *)
(* stickyants-commons-text: the Levenshtein detailed distance (unbounded   *)
(* and threshold-bounded, with its backtrace) and the peer metrics.        *)
(* Arrays keep the source's 0-based indices (functions over 0..n);         *)
(* strings are sequences of characters, read through charAt.               *)
(***************************************************************************)
EXTENDS Integers, Sequences, FiniteSets, TLC

(***************************************************************************)
(* Bounds of the model.                                                    *)
(***************************************************************************)
\* Longest input string.
MaxLen == 4
\* Largest threshold handed to the bounded computation.
MaxThreshold == 5
\* Longest string of a direct call of findDetailedResults.
MaxMatrixLen == 3

\* Longest string and largest threshold of an interleaved call.
MaxTaskLen == 2
MaxTaskThreshold == 1

\* The characters the inputs are built from.
Alphabet == {"a", "b"}

(***************************************************************************)
(* JavaScript values.                                                      *)
(***************************************************************************)
\* The absent arguments: null and undefined (both satisfy `x == null`).
Null == <<"null">>
Undefined == <<"undefined">>

\* `x == null` (loose equality: true of null and of undefined).
IsNullish(x) == x \in {Null, Undefined}

\* A number-or-absent field or argument: undefined, null, or a number.
JSUndefined == [tag |-> "undefined", num |-> 0]
JSNull == [tag |-> "null", num |-> 0]
JSNum(k) == [tag |-> "number", num |-> k]

\* Number.MAX_VALUE, the "infinity" of the banded computation.  As an IEEE
\* double it absorbs small operands: MAX_VALUE + 1 and MAX_VALUE - k are
\* MAX_VALUE again (FAdd, FSub).
MAX_VALUE == 1000000

FAdd(x, y) == IF x >= MAX_VALUE \/ y >= MAX_VALUE THEN MAX_VALUE ELSE x + y
FSub(x, y) == IF x >= MAX_VALUE THEN MAX_VALUE ELSE x - y

Min(x, y) == IF x <= y THEN x ELSE y
Max(x, y) == IF x >= y THEN x ELSE y

\* String.prototype.charAt with a 0-based index.
charAt(s, i) == s[i + 1]

\* createArray(length, defValue): `length` cells, each holding defValue.
createArray(length, defValue) == [i \in 0..(length - 1) |-> defValue]

\* What a call produces: a returned value or a raised Error.
NoValue == <<>>
Return(v) == [threw |-> FALSE, error |-> "", value |-> v]
Throw(msg) == [threw |-> TRUE, error |-> msg, value |-> NoValue]

\* new LevenshteinResults(distance, insertCount, deleteCount, substituteCount)
LevenshteinResults(distance, insertCount, deleteCount, substituteCount) ==
    [distance |-> distance, insertCount |-> insertCount,
     deleteCount |-> deleteCount, substituteCount |-> substituteCount]

(***************************************************************************)
(* The inputs.                                                             *)
(***************************************************************************)
RECURSIVE StringsOfLen(_)
StringsOfLen(n) ==
    IF n = 0 THEN {<<>>}
    ELSE {Append(s, c) : s \in StringsOfLen(n - 1), c \in Alphabet}

Strings == UNION {StringsOfLen(n) : n \in 0..MaxLen}
Inputs == Strings \cup {Null, Undefined}
Thresholds == (-1)..MaxThreshold

(***************************************************************************)
(* findDetailedResults: the backtrace over the retained cost matrix.       *)
(***************************************************************************)
\* The three predecessor reads; -1 stands for "off the matrix".
DataAtLeft(matrix, rowIndex, columnIndex) ==
    IF columnIndex = 0 THEN -1 ELSE matrix[rowIndex][columnIndex - 1]

DataAtTop(matrix, rowIndex, columnIndex) ==
    IF rowIndex = 0 THEN -1 ELSE matrix[rowIndex - 1][columnIndex]

DataAtDiagonal(matrix, rowIndex, columnIndex) ==
    IF rowIndex > 0 /\ columnIndex > 0
    THEN matrix[rowIndex - 1][columnIndex - 1] ELSE -1

\* The loop condition and the break: the walk stops once an index is
\* negative or all three predecessors are off the matrix.
BacktraceRunning(matrix, s) ==
    /\ s.rowIndex >= 0
    /\ s.columnIndex >= 0
    /\ ~(/\ DataAtLeft(matrix, s.rowIndex, s.columnIndex) = -1
         /\ DataAtTop(matrix, s.rowIndex, s.columnIndex) = -1
         /\ DataAtDiagonal(matrix, s.rowIndex, s.columnIndex) = -1)

\* Mutant of IsMatch: the guards are off by one, so the first character of
\* either string is never recognised as a match.
IsMatchSkippingFirst(left, right, rowIndex, columnIndex) ==
    /\ columnIndex > 1
    /\ rowIndex > 1
    /\ charAt(left, columnIndex - 1) = charAt(right, rowIndex - 1)

\* The characters under the cursor are equal: the uncounted diagonal move.
IsMatch(left, right, rowIndex, columnIndex) ==
    /\ columnIndex > 0
    /\ rowIndex > 0
    /\ charAt(left, columnIndex - 1) = charAt(right, rowIndex - 1)

\* The left move is taken (&& binds tighter than ||).
TakesLeft(data, dataAtLeft, dataAtTop, dataAtDiagonal) ==
    \/ (FSub(data, 1) = dataAtLeft /\ (data <= dataAtDiagonal /\ data <= dataAtTop))
    \/ (dataAtDiagonal = -1 /\ dataAtTop = -1)

\* Mutant of TakesTop: without the boundary case, column 0 is left by the
\* substitution.
TakesTopWithoutBoundary(data, dataAtLeft, dataAtTop, dataAtDiagonal) ==
    FSub(data, 1) = dataAtTop /\ (data <= dataAtDiagonal /\ data <= dataAtLeft)

\* The top move is taken, as the else-branch of the left move.
TakesTop(data, dataAtLeft, dataAtTop, dataAtDiagonal) ==
    \/ (FSub(data, 1) = dataAtTop /\ (data <= dataAtDiagonal /\ data <= dataAtLeft))
    \/ (dataAtDiagonal = -1 /\ dataAtLeft = -1)

\* The move one iteration of the loop body makes: "match", "left", "top" or
\* "diagonal" (the substitution).
BacktraceMove(left, right, matrix, s) ==
    LET dataAtLeft == DataAtLeft(matrix, s.rowIndex, s.columnIndex)
        dataAtTop == DataAtTop(matrix, s.rowIndex, s.columnIndex)
        dataAtDiagonal == DataAtDiagonal(matrix, s.rowIndex, s.columnIndex)
        data == matrix[s.rowIndex][s.columnIndex]
    IN  IF IsMatch(left, right, s.rowIndex, s.columnIndex) THEN "match"
        ELSE IF TakesLeft(data, dataAtLeft, dataAtTop, dataAtDiagonal) THEN "left"
        ELSE IF TakesTop(data, dataAtLeft, dataAtTop, dataAtDiagonal) THEN "top"
        ELSE "diagonal"

\* Mutant of BacktraceStep: the swap is ignored, a left move always counts a
\* deletion and a top move an insertion.
BacktraceStepIgnoringSwap(left, right, matrix, swapped, s) ==
    LET move == BacktraceMove(left, right, matrix, s)
    IN  CASE move = "match" ->
                [s EXCEPT !.columnIndex = @ - 1, !.rowIndex = @ - 1]
          [] move = "left" ->
                [s EXCEPT !.columnIndex = @ - 1, !.delCount = @ + 1]
          [] move = "top" ->
                [s EXCEPT !.rowIndex = @ - 1, !.addCount = @ + 1]
          [] OTHER ->
                [s EXCEPT !.subCount = @ + 1,
                          !.columnIndex = @ - 1, !.rowIndex = @ - 1]

\* Mutant of BacktraceStep: the top move of a swapped call counts an
\* insertion, as that of an unswapped call does.
BacktraceStepSwappedTopAsInsert(left, right, matrix, swapped, s) ==
    LET move == BacktraceMove(left, right, matrix, s)
    IN  CASE move = "match" ->
                [s EXCEPT !.columnIndex = @ - 1, !.rowIndex = @ - 1]
          [] move = "left" ->
                IF swapped
                THEN [s EXCEPT !.columnIndex = @ - 1, !.addCount = @ + 1]
                ELSE [s EXCEPT !.columnIndex = @ - 1, !.delCount = @ + 1]
          [] move = "top" ->
                [s EXCEPT !.rowIndex = @ - 1, !.addCount = @ + 1]
          [] OTHER ->
                [s EXCEPT !.subCount = @ + 1,
                          !.columnIndex = @ - 1, !.rowIndex = @ - 1]

\* Mutant of BacktraceStep: the top move of a swapped call forgets to count
\* its deletion.
BacktraceStepSwappedTopUncounted(left, right, matrix, swapped, s) ==
    LET move == BacktraceMove(left, right, matrix, s)
    IN  CASE move = "match" ->
                [s EXCEPT !.columnIndex = @ - 1, !.rowIndex = @ - 1]
          [] move = "left" ->
                IF swapped
                THEN [s EXCEPT !.columnIndex = @ - 1, !.addCount = @ + 1]
                ELSE [s EXCEPT !.columnIndex = @ - 1, !.delCount = @ + 1]
          [] move = "top" ->
                IF swapped
                THEN [s EXCEPT !.rowIndex = @ - 1]
                ELSE [s EXCEPT !.rowIndex = @ - 1, !.addCount = @ + 1]
          [] OTHER ->
                [s EXCEPT !.subCount = @ + 1,
                          !.columnIndex = @ - 1, !.rowIndex = @ - 1]

\* One iteration of the loop body.
BacktraceStep(left, right, matrix, swapped, s) ==
    LET move == BacktraceMove(left, right, matrix, s)
    IN  CASE move = "match" ->
                [s EXCEPT !.columnIndex = @ - 1, !.rowIndex = @ - 1]
          [] move = "left" ->
                IF swapped
                THEN [s EXCEPT !.columnIndex = @ - 1, !.addCount = @ + 1]
                ELSE [s EXCEPT !.columnIndex = @ - 1, !.delCount = @ + 1]
          [] move = "top" ->
                IF swapped
                THEN [s EXCEPT !.rowIndex = @ - 1, !.delCount = @ + 1]
                ELSE [s EXCEPT !.rowIndex = @ - 1, !.addCount = @ + 1]
          [] OTHER ->
                [s EXCEPT !.subCount = @ + 1,
                          !.columnIndex = @ - 1, !.rowIndex = @ - 1]

RECURSIVE BacktraceLoop(_, _, _, _, _)
BacktraceLoop(left, right, matrix, swapped, s) ==
    IF BacktraceRunning(matrix, s)
    THEN BacktraceLoop(left, right, matrix, swapped,
                       BacktraceStep(left, right, matrix, swapped, s))
    ELSE s

\* Mutant of DetailedDistance: the substitutions are left out of the sum.
DetailedDistanceWithoutSubstitutions(addCount, delCount, subCount) ==
    addCount + delCount

\* The distance the result carries: the sum of the three counters.
DetailedDistance(addCount, delCount, subCount) == addCount + delCount + subCount

findDetailedResults(left, right, matrix, swapped) ==
    LET s == BacktraceLoop(left, right, matrix, swapped,
                 [rowIndex |-> Len(right), columnIndex |-> Len(left),
                  addCount |-> 0, delCount |-> 0, subCount |-> 0])
    IN  LevenshteinResults(DetailedDistance(s.addCount, s.delCount, s.subCount),
                           s.addCount, s.delCount, s.subCount)

(***************************************************************************)
(* The cost matrix both computations retain for the backtrace.             *)
(***************************************************************************)
\* createArray(m+1, () => createArray(n+1, 0)), then row 0 and column 0
\* filled with their indices.
InitMatrix(n, m) ==
    LET zero == createArray(m + 1, createArray(n + 1, 0))
        row0 == [zero EXCEPT ![0] = [index \in 0..n |-> index]]
    IN  [index \in 0..m |-> [row0[index] EXCEPT ![0] = index]]

(***************************************************************************)
(* unlimitedCompare.                                                       *)
(***************************************************************************)
\* The inner loop over i = 1..n for one j: fills d and row j of the matrix.
RECURSIVE UnlimitedInner(_, _, _, _, _, _, _, _)
UnlimitedInner(left, rightJ, p, d, matrix, j, i, n) ==
    IF i > n THEN [d |-> d, matrix |-> matrix]
    ELSE LET cost == IF charAt(left, i - 1) = rightJ THEN 0 ELSE 1
             di == Min(Min(d[i - 1] + 1, p[i] + 1), p[i - 1] + cost)
         IN  UnlimitedInner(left, rightJ, p, [d EXCEPT ![i] = di],
                            [matrix EXCEPT ![j][i] = di], j, i + 1, n)

\* The outer loop over j = 1..m, swapping p and d after each row.
RECURSIVE UnlimitedOuter(_, _, _, _, _, _, _, _)
UnlimitedOuter(left, right, p, d, matrix, j, n, m) ==
    IF j > m THEN matrix
    ELSE LET rightJ == charAt(right, j - 1)
             row == UnlimitedInner(left, rightJ, p, [d EXCEPT ![0] = j],
                                   matrix, j, 1, n)
         IN  UnlimitedOuter(left, right, row.d, p, row.matrix, j + 1, n, m)

\* The forward pass on the (already swapped) operands: the filled matrix.
UnlimitedMatrix(left, right) ==
    LET n == Len(left)
        m == Len(right)
        p == [i \in 0..n |-> i]
        d == createArray(n + 1, 0)
    IN  UnlimitedOuter(left, right, p, d, InitMatrix(n, m), 1, n, m)

unlimitedCompare(left, right) ==
    IF IsNullish(left) \/ IsNullish(right)
    THEN Throw("CharSequences must not be null")
    ELSE LET n == Len(left)
             m == Len(right)
             swapped == n > m
             l == IF swapped THEN right ELSE left
             r == IF swapped THEN left ELSE right
         IN  IF n = 0 THEN Return(LevenshteinResults(m, m, 0, 0))
             ELSE IF m = 0 THEN Return(LevenshteinResults(n, 0, n, 0))
             ELSE Return(findDetailedResults(l, r, UnlimitedMatrix(l, r), swapped))

(***************************************************************************)
(* limitedCompare.                                                         *)
(***************************************************************************)
\* The result for "no solution within the threshold".
Sentinel == LevenshteinResults(-1, 0, 0, 0)

\* Mutant of EmptyOperand: the comparison with the threshold is strict.
EmptyOperandStrict(len, insertCount, deleteCount, threshold) ==
    IF len < threshold
    THEN LevenshteinResults(len, insertCount, deleteCount, 0)
    ELSE Sentinel

\* An empty operand: the other length when it is within the threshold.
EmptyOperand(len, insertCount, deleteCount, threshold) ==
    IF len <= threshold
    THEN LevenshteinResults(len, insertCount, deleteCount, 0)
    ELSE Sentinel

\* The starting rows: p holds 0..boundary-1 and MAX_VALUE beyond, d is all
\* MAX_VALUE.
LimitedInitP(n, threshold) ==
    LET boundary == Min(n, threshold) + 1
    IN  [i \in 0..n |-> IF i < boundary THEN i ELSE MAX_VALUE]

LimitedInitD(n) == createArray(n + 1, MAX_VALUE)

\* The stripe of row j.
StripeMin(j, threshold) == Max(1, j - threshold)

StripeMax(j, n, threshold) ==
    IF j > FSub(MAX_VALUE, threshold) THEN n ELSE Min(n, j + threshold)

\* The inner loop over i = min..max for one j.
RECURSIVE LimitedInner(_, _, _, _, _, _, _, _)
LimitedInner(left, rightJ, p, d, matrix, j, i, max) ==
    IF i > max THEN [d |-> d, matrix |-> matrix]
    ELSE LET di == IF charAt(left, i - 1) = rightJ
                   THEN p[i - 1]
                   ELSE FAdd(1, Min(Min(d[i - 1], p[i]), p[i - 1]))
         IN  LimitedInner(left, rightJ, p, [d EXCEPT ![i] = di],
                          [matrix EXCEPT ![j][i] = di], j, i + 1, max)

\* The outer loop over j = 1..m; `offTable` is the early return taken when
\* the stripe has run off the table.
RECURSIVE LimitedOuter(_, _, _, _, _, _, _, _, _)
LimitedOuter(left, right, p, d, matrix, j, n, m, threshold) ==
    IF j > m THEN [offTable |-> FALSE, p |-> p, matrix |-> matrix]
    ELSE LET rightJ == charAt(right, j - 1)
             d0 == [d EXCEPT ![0] = j]
             min == StripeMin(j, threshold)
             max == StripeMax(j, n, threshold)
             d1 == IF min > 1 THEN [d0 EXCEPT ![min - 1] = MAX_VALUE] ELSE d0
             row == LimitedInner(left, rightJ, p, d1, matrix, j, min, max)
         IN  IF min > max
             THEN [offTable |-> TRUE, p |-> p, matrix |-> matrix]
             ELSE LimitedOuter(left, right, row.d, p, row.matrix,
                               j + 1, n, m, threshold)

\* The forward pass on the (already swapped) operands.
LimitedForward(left, right, threshold) ==
    LET n == Len(left)
        m == Len(right)
    IN  LimitedOuter(left, right, LimitedInitP(n, threshold), LimitedInitD(n),
                     InitMatrix(n, m), 1, n, m, threshold)

\* Mutants of WithinThreshold: the final check is off by one, either way.
WithinThresholdOffByOne(pn, threshold) == pn <= threshold + 1

WithinThresholdStrict(pn, threshold) == pn < threshold

\* The final check on p[n].
WithinThreshold(pn, threshold) == pn <= threshold

\* Mutant of LimitedPreconditions: the threshold is checked only after the
\* empty-operand shortcut, so a call with an empty string never reaches it.
LimitedPreconditionsAfterShortcut(left, right, threshold) ==
    IF IsNullish(left) \/ IsNullish(right) THEN "CharSequences must not be null"
    ELSE IF threshold < 0 /\ Len(left) > 0 /\ Len(right) > 0
    THEN "Threshold must not be negative"
    ELSE ""

\* Mutant of LimitedPreconditions: the threshold is checked before the
\* arguments are checked for null.
LimitedPreconditionsThresholdFirst(left, right, threshold) ==
    IF threshold < 0 THEN "Threshold must not be negative"
    ELSE IF IsNullish(left) \/ IsNullish(right) THEN "CharSequences must not be null"
    ELSE ""

\* The two precondition checks that open limitedCompare, in their order: the
\* message of the Error raised, or "" when both pass.
LimitedPreconditions(left, right, threshold) ==
    IF IsNullish(left) \/ IsNullish(right) THEN "CharSequences must not be null"
    ELSE IF threshold < 0 THEN "Threshold must not be negative"
    ELSE ""

limitedCompare(left, right, threshold) ==
    IF LimitedPreconditions(left, right, threshold) # ""
    THEN Throw(LimitedPreconditions(left, right, threshold))
    ELSE LET n == Len(left)
             m == Len(right)
             swapped == n > m
             l == IF swapped THEN right ELSE left
             r == IF swapped THEN left ELSE right
             fwd == LimitedForward(l, r, threshold)
         IN  IF n = 0 THEN Return(EmptyOperand(m, m, 0, threshold))
             ELSE IF m = 0 THEN Return(EmptyOperand(n, 0, n, threshold))
             ELSE IF fwd.offTable THEN Return(Sentinel)
             ELSE IF WithinThreshold(fwd.p[Len(l)], threshold)
             THEN Return(findDetailedResults(l, r, fwd.matrix, swapped))
             ELSE Return(Sentinel)

(***************************************************************************)
(* JaroWinklerDistance.                                                    *)
(* `range` is max.length / 2 - 1 without rounding, so with a longer string *)
(* of odd length the scan index xi takes half-integer values.  Indices of  *)
(* the scan are therefore kept doubled (xi2 = 2 * xi): charAt truncates    *)
(* its index, and matchFlags[xi] with a half-integer xi is a property of   *)
(* the array object that the later scan over 0..max.length-1 never reads.  *)
(* Scores are exact fractions [num, den].                                  *)
(***************************************************************************)
Fraction(num, den) == [num |-> num, den |-> den]

\* Mutant of Range2: the window is a quarter of the longer length,
\* 2 * Math.max(Math.floor(max.length / 4) - 1, 0).
Range2Quarter(maxLength) == 2 * Max((maxLength \div 4) - 1, 0)

\* 2 * Math.max(max.length / 2 - 1, 0)
Range2(maxLength) == Max(maxLength - 2, 0)

\* The scan of max for the character at index mi of min: the doubled index
\* of the first unflagged equal character from xi2 on, or -1.
RECURSIVE ScanWindow(_, _, _, _, _)
ScanWindow(c1, max, matchFlags, xi2, xn2) ==
    IF ~(xi2 < xn2) THEN -1
    ELSE IF xi2 \notin matchFlags /\ c1 = charAt(max, xi2 \div 2) THEN xi2
    ELSE ScanWindow(c1, max, matchFlags, xi2 + 2, xn2)

\* The matching loop over mi: matchIndexes (doubled, -1 for none) and the
\* set of flagged (doubled) indices of max.
RECURSIVE MatchLoop(_, _, _, _, _)
MatchLoop(min, max, mi, matchIndexes, matchFlags) ==
    IF ~(mi < Len(min)) THEN [matchIndexes |-> matchIndexes, matchFlags |-> matchFlags]
    ELSE LET range2 == Range2(Len(max))
             xi2 == Max(2 * mi - range2, 0)
             xn2 == Min(2 * mi + range2 + 2, 2 * Len(max))
             found == ScanWindow(charAt(min, mi), max, matchFlags, xi2, xn2)
         IN  IF found = -1
             THEN MatchLoop(min, max, mi + 1, matchIndexes, matchFlags)
             ELSE MatchLoop(min, max, mi + 1,
                            [matchIndexes EXCEPT ![mi] = found],
                            matchFlags \cup {found})

\* ms1: the matched characters of min, in order.
RECURSIVE CollectMin(_, _, _)
CollectMin(min, matchIndexes, i) ==
    IF ~(i < Len(min)) THEN <<>>
    ELSE IF matchIndexes[i] # -1
    THEN <<charAt(min, i)>> \o CollectMin(min, matchIndexes, i + 1)
    ELSE CollectMin(min, matchIndexes, i + 1)

\* The flagged characters of max at the integer indices, in order.
RECURSIVE CollectMax(_, _, _)
CollectMax(max, matchFlags, i) ==
    IF ~(i < Len(max)) THEN <<>>
    ELSE IF (2 * i) \in matchFlags
    THEN <<charAt(max, i)>> \o CollectMax(max, matchFlags, i + 1)
    ELSE CollectMax(max, matchFlags, i + 1)

\* ms2: createArray(matches, '') overwritten from the front by the flagged
\* characters; cells that stay unwritten hold ''.
FillMs2(collected, matches) ==
    [si \in 0..(matches - 1) |->
        IF si < Len(collected) THEN collected[si + 1] ELSE ""]

\* Mutant of PrefixLoop: the common prefix is counted to the end of the
\* shorter string, not to 4.
RECURSIVE PrefixLoopUncapped(_, _, _, _)
PrefixLoopUncapped(first, second, mi, limit) ==
    IF ~(mi < Min(Len(first), Len(second))) THEN 0
    ELSE IF charAt(first, mi) = charAt(second, mi)
    THEN 1 + PrefixLoopUncapped(first, second, mi + 1, limit)
    ELSE 0

\* The common prefix of first and second, at most 4 and at most |min|.
RECURSIVE PrefixLoop(_, _, _, _)
PrefixLoop(first, second, mi, limit) ==
    IF ~(mi < limit) THEN 0
    ELSE IF charAt(first, mi) = charAt(second, mi)
    THEN 1 + PrefixLoop(first, second, mi + 1, limit)
    ELSE 0

\* matches(first, second): [matches, halfTranspositions, prefix].
matches(first, second) ==
    LET max == IF Len(first) > Len(second) THEN first ELSE second
        min == IF Len(first) > Len(second) THEN second ELSE first
        loop == MatchLoop(min, max, 0, createArray(Len(min), -1), {})
        count == Cardinality({mi \in 0..(Len(min) - 1) : loop.matchIndexes[mi] # -1})
        ms1 == CollectMin(min, loop.matchIndexes, 0)
        ms2 == FillMs2(CollectMax(max, loop.matchFlags, 0), count)
        halfTranspositions ==
            Cardinality({mi \in 0..(count - 1) : ms1[mi + 1] # ms2[mi]})
        prefix == PrefixLoop(first, second, 0, Min(4, Len(min)))
    IN  [matches |-> count, halfTranspositions |-> halfTranspositions,
         prefix |-> prefix]

\* j = (m / |left| + m / |right| + (m - t / 2) / m) / 3 over the common
\* denominator 6 * |left| * |right| * m.
JaroScore(m, t, leftLength, rightLength) ==
    Fraction(2 * m * m * rightLength + 2 * m * m * leftLength
                 + (2 * m - t) * leftLength * rightLength,
             6 * leftLength * rightLength * m)

\* Mutant of WinklerScore: the prefix bonus is not scaled by (1 - j).
WinklerScoreUnscaled(j, prefix) ==
    IF 10 * j.num < 7 * j.den THEN j
    ELSE Fraction(10 * j.num + prefix * j.den, 10 * j.den)

\* jw = j < 0.7 ? j : j + 0.1 * prefix * (1 - j)
WinklerScore(j, prefix) ==
    IF 10 * j.num < 7 * j.den THEN j
    ELSE Fraction(10 * j.num + prefix * (j.den - j.num), 10 * j.den)

\* Mutant of JaroWinklerApply: the score is computed without the m == 0
\* return, so a zero match count divides by zero.
JaroWinklerApplyUnguarded(first, second) ==
    IF IsNullish(first) \/ IsNullish(second)
    THEN Throw("CharSequences must not be null")
    ELSE LET mtp == matches(first, second)
         IN  Return(WinklerScore(
                 JaroScore(mtp.matches, mtp.halfTranspositions,
                           Len(first), Len(second)),
                 mtp.prefix))

JaroWinklerApply(first, second) ==
    IF IsNullish(first) \/ IsNullish(second)
    THEN Throw("CharSequences must not be null")
    ELSE LET mtp == matches(first, second)
             m == mtp.matches
         IN  IF m = 0 THEN Return(Fraction(0, 1))
             ELSE Return(WinklerScore(
                      JaroScore(m, mtp.halfTranspositions, Len(first), Len(second)),
                      mtp.prefix))

(***************************************************************************)
(* JaccardSimilarity and JaccardDistance.  Values are in hundredths: the   *)
(* code returns Math.round(x * 100) / 100.                                 *)
(***************************************************************************)
\* Math.round(num / den) for num >= 0, den > 0: halves round up.
RoundHalfUp(num, den) == (2 * num + den) \div (2 * den)

\* The set of characters of a string.
CharSet(s) == {s[i] : i \in 1..Len(s)}

\* Mutant of calculateJaccardSimilarity: the intersection size is taken from
\* the lengths of the strings, so repeated characters count again.
calculateJaccardSimilarityCountingRepeats(first, second) ==
    IF Len(first) = 0 \/ Len(second) = 0 THEN Fraction(0, 1)
    ELSE LET unionSet == CharSet(first) \cup CharSet(second)
         IN  Fraction(Len(first) + Len(second) - Cardinality(unionSet),
                      Cardinality(unionSet))

\* calculateJaccardSimilarity as the fraction intersection / union.
calculateJaccardSimilarity(first, second) ==
    IF Len(first) = 0 \/ Len(second) = 0 THEN Fraction(0, 1)
    ELSE LET leftSet == CharSet(first)
             rightSet == CharSet(second)
             unionSet == leftSet \cup rightSet
             intersectionSize ==
                 Cardinality(leftSet) + Cardinality(rightSet) - Cardinality(unionSet)
         IN  Fraction(intersectionSize, Cardinality(unionSet))

JaccardSimilarityApply(first, second) ==
    IF IsNullish(first) \/ IsNullish(second)
    THEN Throw("Input cannot be null")
    ELSE LET sim == calculateJaccardSimilarity(first, second)
         IN  Return(RoundHalfUp(sim.num * 100, sim.den))

\* Math.round((1 - similarity) * 100) / 100, the similarity in hundredths.
JaccardDistanceApply(first, second) ==
    IF IsNullish(first) \/ IsNullish(second)
    THEN Throw("Input cannot be null")
    ELSE Return(RoundHalfUp((100 - JaccardSimilarityApply(first, second).value) * 100,
                            100))

(***************************************************************************)
(* HammingDistance.                                                        *)
(***************************************************************************)
\* Mutant of HammingApply: without the length check, the positions of left
\* are compared with what right holds there.
HammingApplyUnchecked(first, second) ==
    IF IsNullish(first) \/ IsNullish(second)
    THEN Throw("CharSequences must not be null")
    ELSE Return(Cardinality({i \in 0..(Len(first) - 1) :
                                 \/ i >= Len(second)
                                 \/ charAt(first, i) # charAt(second, i)}))

HammingApply(first, second) ==
    IF IsNullish(first) \/ IsNullish(second)
    THEN Throw("CharSequences must not be null")
    ELSE IF Len(first) # Len(second)
    THEN Throw("CharSequences must have the same length")
    ELSE Return(Cardinality({i \in 0..(Len(first) - 1) :
                                 charAt(first, i) # charAt(second, i)}))

(***************************************************************************)
(* fuzzyScore.                                                             *)
(***************************************************************************)
\* String.prototype.toLowerCase, character by character: the letters A-Z
\* map to a-z and every other character of the inputs used here to itself.
UpperCaseLetters ==
    <<"A", "B", "C", "D", "E", "F", "G", "H", "I", "J", "K", "L", "M",
      "N", "O", "P", "Q", "R", "S", "T", "U", "V", "W", "X", "Y", "Z">>

LowerCaseLetters ==
    <<"a", "b", "c", "d", "e", "f", "g", "h", "i", "j", "k", "l", "m",
      "n", "o", "p", "q", "r", "s", "t", "u", "v", "w", "x", "y", "z">>

LowerChar(c) ==
    IF \E i \in DOMAIN UpperCaseLetters : UpperCaseLetters[i] = c
    THEN LowerCaseLetters[CHOOSE i \in DOMAIN UpperCaseLetters :
                              UpperCaseLetters[i] = c]
    ELSE c

toLowerCase(s) == [i \in 1..Len(s) |-> LowerChar(s[i])]

\* Number.MIN_VALUE, the initial previousMatchingCharacterIndex: the
\* smallest positive double, 5e-324.  Its only use is MIN_VALUE + 1, which
\* rounds to 1, as 0 + 1 does.
MIN_VALUE == 0

\* The inner loop for one query character from termIndex on: the state
\* after it (termIndex has moved past a match).
RECURSIVE FuzzyInner(_, _, _)
FuzzyInner(termLowerCase, queryChar, f) ==
    IF ~(f.termIndex < Len(termLowerCase) /\ ~f.found) THEN f
    ELSE IF queryChar = charAt(termLowerCase, f.termIndex)
    THEN FuzzyInner(termLowerCase, queryChar,
             [score |-> f.score + 1
                        + (IF f.previous + 1 = f.termIndex THEN 2 ELSE 0),
              previous |-> f.termIndex,
              found |-> TRUE,
              termIndex |-> f.termIndex + 1])
    ELSE FuzzyInner(termLowerCase, queryChar,
                    [f EXCEPT !.termIndex = @ + 1])

RECURSIVE FuzzyOuter(_, _, _, _)
FuzzyOuter(termLowerCase, queryLowerCase, queryIndex, f) ==
    IF ~(queryIndex < Len(queryLowerCase)) THEN f.score
    ELSE FuzzyOuter(termLowerCase, queryLowerCase, queryIndex + 1,
                    FuzzyInner(termLowerCase, charAt(queryLowerCase, queryIndex),
                               [f EXCEPT !.found = FALSE]))

fuzzyScore(term, query) ==
    IF IsNullish(term) \/ IsNullish(query)
    THEN Throw("provided parameters must not be null")
    ELSE Return(FuzzyOuter(toLowerCase(term), toLowerCase(query), 0,
                           [score |-> 0, previous |-> MIN_VALUE,
                            found |-> FALSE, termIndex |-> 0]))

(***************************************************************************)
(* The instance: its threshold field, the threshold method and apply.      *)
(***************************************************************************)
\* LevenshteinDetailedDistance.apply: bounded when the field is set.
apply(instThreshold, left, right) ==
    IF instThreshold.tag = "number"
    THEN limitedCompare(left, right, instThreshold.num)
    ELSE unlimitedCompare(left, right)

\* The method LevenshteinDetailedDistance(threshold = null) of the class: it
\* raises on a negative threshold and otherwise stores it in the field.  An
\* undefined argument takes the default, null.
SetThresholdOutcome(arg) ==
    LET t == IF arg.tag = "undefined" THEN JSNull ELSE arg
    IN  IF t.tag = "number" /\ t.num < 0
        THEN Throw("Threshold must not be negative")
        ELSE Return(t)

\* new LevenshteinDetailedDistance(arg): the class declares no constructor,
\* so the implicit one runs, which ignores its arguments and raises nothing;
\* the field is declared without an initialiser and holds undefined.
New(arg) == Return(JSUndefined)

\* getThreshold(): the field as it is.
getThreshold(instThreshold) == Return(instThreshold)

\* What a caller may pass as the threshold: nothing, or a number.
ThresholdArgs == {JSUndefined} \cup {JSNum(k) : k \in Thresholds}

(***************************************************************************)
(* Calls in progress at the same time: their names, the arrays they        *)
(* create, and a call that has not begun.                                  *)
(***************************************************************************)
Calls == {"first", "second"}

TaskStrings == {s \in Strings : Len(s) <= MaxTaskLen}

BufferNames == {"p", "d", "matrix", "matchIndexes", "matchFlags"}

Operations == {"apply", "limitedCompare", "JaroWinklerDistance.apply"}

\* Mutant of BufferOf: createArray hands out one array per name, the same
\* to every call.
BufferOfFirstCall(call, name) == <<"first", name>>

\* createArray builds a new array (`var a = []`) each time it is called:
\* the array a call creates under a name is its own.
BufferOf(call, name) == <<call, name>>

Buffers == {<<call, name>> : call \in Calls, name \in BufferNames}

\* A call that has not begun.
IdleCall ==
    [status |-> "idle", operation |-> "none", first |-> <<>>, second |-> <<>>,
     l |-> <<>>, r |-> <<>>, swapped |-> FALSE, bounded |-> FALSE,
     threshold |-> 0, index |-> 0, p |-> <<>>, d |-> <<>>,
     overlapped |-> FALSE, result |-> Return(NoValue)]

\* No array has been created.
EmptyHeap == [buffer \in Buffers |-> <<>>]

(***************************************************************************)
(* The state machine: a pair of inputs, an instance, and one call.         *)
(***************************************************************************)
VARIABLES
    left,       \* the first argument of the call
    right,      \* the second argument of the call
    threshold,  \* the threshold argument of a limitedCompare call
    newArg,     \* the argument the instance was created with
    instance,   \* the threshold field of the LevenshteinDetailedDistance instance
    givenMatrix, \* the matrix argument of a direct findDetailedResults call
    calls,      \* the calls whose steps interleave: the locals of each
    heap,       \* the arrays those calls have created
    pc,         \* "start" with no instance, "ready" before the call, "done" after it
    op,         \* the operation that was called
    result      \* what the call produced

vars == <<left, right, threshold, newArg, instance, givenMatrix, calls, heap,
          pc, op, result>>

\* The module is loaded and the caller holds two arguments; no instance has
\* been created yet.
Init ==
    /\ left \in Inputs
    /\ right \in Inputs
    /\ threshold = 0
    /\ newArg = JSUndefined
    /\ instance = JSUndefined
    /\ givenMatrix = <<>>
    /\ calls = [call \in Calls |-> IdleCall]
    /\ heap = EmptyHeap
    /\ pc = "start"
    /\ op = "none"
    /\ result = Return(NoValue)

\* new LevenshteinDetailedDistance(arg), arg a number or absent.
NewInstance ==
    /\ pc = "start"
    /\ \E arg \in ThresholdArgs :
          LET out == New(arg)
          IN  /\ newArg' = arg
              /\ IF out.threw
                 THEN /\ result' = out
                      /\ pc' = "done"
                      /\ op' = "new"
                      /\ UNCHANGED instance
                 ELSE /\ instance' = out.value
                      /\ pc' = "ready"
                      /\ UNCHANGED <<result, op>>
    /\ UNCHANGED <<left, right, threshold, givenMatrix, calls, heap>>

\* instance.getThreshold()
GetThreshold ==
    /\ pc = "ready"
    /\ result' = getThreshold(instance)
    /\ op' = "getThreshold"
    /\ pc' = "done"
    /\ UNCHANGED <<left, right, threshold, newArg, instance, givenMatrix, calls, heap>>

\* instance.LevenshteinDetailedDistance(k), k a number or absent, on an
\* instance created without argument.
SetThreshold ==
    /\ pc = "ready"
    /\ newArg = JSUndefined
    /\ instance = JSUndefined
    /\ \E arg \in ThresholdArgs :
          LET out == SetThresholdOutcome(arg)
          IN  IF out.threw
              THEN /\ result' = out
                   /\ pc' = "done"
                   /\ op' = "LevenshteinDetailedDistance"
                   /\ UNCHANGED instance
              ELSE /\ instance' = out.value
                   /\ UNCHANGED <<result, pc, op>>
    /\ UNCHANGED <<left, right, threshold, newArg, givenMatrix, calls, heap>>

\* instance.apply(left, right)
Apply ==
    /\ pc = "ready"
    /\ result' = apply(instance, left, right)
    /\ op' = "apply"
    /\ pc' = "done"
    /\ UNCHANGED <<left, right, threshold, newArg, instance, givenMatrix, calls, heap>>

\* LevenshteinDetailedDistance.limitedCompare(left, right, k)
LimitedCompare ==
    /\ pc = "start"
    /\ \E k \in Thresholds :
          /\ threshold' = k
          /\ result' = limitedCompare(left, right, k)
    /\ op' = "limitedCompare"
    /\ pc' = "done"
    /\ UNCHANGED <<left, right, newArg, instance, givenMatrix, calls, heap>>

\* LevenshteinDetailedDistance.unlimitedCompare(left, right)
UnlimitedCompare ==
    /\ pc = "start"
    /\ result' = unlimitedCompare(left, right)
    /\ op' = "unlimitedCompare"
    /\ pc' = "done"
    /\ UNCHANGED <<left, right, threshold, newArg, instance, givenMatrix, calls, heap>>

\* What a caller may put into one cell of the matrix it passes: the mark
\* the backtrace uses for "off the matrix", the default of createArray, or
\* the infinity of the bounded rows.
MatrixCellValues == {-1, 0, MAX_VALUE}

\* LevenshteinDetailedDistance.findDetailedResults(left, right, matrix,
\* swapped), the static method called directly: the matrix is the cost
\* matrix of (left, right) with one cell overwritten.
FindDetailedResultsCall ==
    /\ pc = "start"
    /\ left \in Strings /\ Len(left) <= MaxMatrixLen
    /\ right \in Strings /\ Len(right) <= MaxMatrixLen
    /\ \E rowIndex \in 0..Len(right), columnIndex \in 0..Len(left),
          v \in MatrixCellValues, swapped \in BOOLEAN :
          LET given == [UnlimitedMatrix(left, right)
                           EXCEPT ![rowIndex][columnIndex] = v]
          IN  /\ givenMatrix' = given
              /\ result' = Return(findDetailedResults(left, right, given, swapped))
    /\ op' = "findDetailedResults"
    /\ pc' = "done"
    /\ UNCHANGED <<left, right, threshold, newArg, instance, calls, heap>>

\* new JaroWinklerDistance().apply(left, right)
JaroWinklerDistanceApply ==
    /\ pc = "start"
    /\ result' = JaroWinklerApply(left, right)
    /\ op' = "JaroWinklerDistance.apply"
    /\ pc' = "done"
    /\ UNCHANGED <<left, right, threshold, newArg, instance, givenMatrix, calls, heap>>

\* new JaccardSimilarity().apply(left, right)
JaccardSimilarityCall ==
    /\ pc = "start"
    /\ result' = JaccardSimilarityApply(left, right)
    /\ op' = "JaccardSimilarity.apply"
    /\ pc' = "done"
    /\ UNCHANGED <<left, right, threshold, newArg, instance, givenMatrix, calls, heap>>

\* new JaccardDistance().apply(left, right)
JaccardDistanceCall ==
    /\ pc = "start"
    /\ result' = JaccardDistanceApply(left, right)
    /\ op' = "JaccardDistance.apply"
    /\ pc' = "done"
    /\ UNCHANGED <<left, right, threshold, newArg, instance, givenMatrix, calls, heap>>

\* new HammingDistance().apply(left, right)
HammingDistanceCall ==
    /\ pc = "start"
    /\ result' = HammingApply(left, right)
    /\ op' = "HammingDistance.apply"
    /\ pc' = "done"
    /\ UNCHANGED <<left, right, threshold, newArg, instance, givenMatrix, calls, heap>>

\* fuzzyScore(left, right): left is the term, right the query.
FuzzyScoreCall ==
    /\ pc = "start"
    /\ result' = fuzzyScore(left, right)
    /\ op' = "fuzzyScore"
    /\ pc' = "done"
    /\ UNCHANGED <<left, right, threshold, newArg, instance, givenMatrix, calls, heap>>

Next ==
    \/ NewInstance
    \/ GetThreshold
    \/ SetThreshold
    \/ Apply
    \/ LimitedCompare
    \/ UnlimitedCompare
    \/ FindDetailedResultsCall
    \/ JaroWinklerDistanceApply
    \/ JaccardSimilarityCall
    \/ JaccardDistanceCall
    \/ HammingDistanceCall
    \/ FuzzyScoreCall

Spec == Init /\ [][Next]_vars

(***************************************************************************)
(* The documented calls: the words of the examples in the documentation of *)
(* JaroWinklerDistance.apply and of fuzzyScore and of the ranking test, as *)
(* arguments of the two functions and of the two Jaccard metrics.          *)
(***************************************************************************)
Aaapppp == <<"a", "a", "a", "p", "p", "p", "p">>
Frog == <<"f", "r", "o", "g">>
Fog == <<"f", "o", "g">>
Fly == <<"f", "l", "y">>
Ant == <<"a", "n", "t">>
Elephant == <<"e", "l", "e", "p", "h", "a", "n", "t">>
Hippo == <<"h", "i", "p", "p", "o">>
Zzzzzzzz == <<"z", "z", "z", "z", "z", "z", "z", "z">>
Hello == <<"h", "e", "l", "l", "o">>
Hallo == <<"h", "a", "l", "l", "o">>

\* The query and the commands of the ranking test.
GeU == <<"g", "e", "U">>
GetUser == <<"g", "e", "t", "U", "s", "e", "r">>
GetFirstName == <<"g", "e", "t", "F", "i", "r", "s", "t", "N", "a", "m", "e">>
GetUsers == <<"g", "e", "t", "U", "s", "e", "r", "s">>
GetAll == <<"g", "e", "t", "A", "l", "l">>
AssignUserToGroup ==
    <<"a", "s", "s", "i", "g", "n", "U", "s", "e", "r", "T", "o",
      "G", "r", "o", "u", "p">>
Box == <<"b", "o", "x">>
Unbox == <<"u", "n", "b", "o", "x">>

Commands ==
    {GetUser, GetFirstName, GetUsers, GetAll, AssignUserToGroup, Box, Unbox}

\* The terms and queries of the fuzzyScore examples.
Room == <<"R", "o", "o", "m">>
Workshop == <<"W", "o", "r", "k", "s", "h", "o", "p">>

FuzzyQueries == {<<"o">>, <<"w">>, <<"w", "s">>, <<"w", "o">>}

ExampleWords ==
    {<<>>, <<"a">>, Aaapppp, Frog, Fog, Fly, Ant, Elephant, Hippo, Zzzzzzzz,
     Hello, Hallo, GeU, Room, Workshop}
        \cup Commands \cup FuzzyQueries

InitExamples ==
    /\ left \in ExampleWords
    /\ right \in ExampleWords
    /\ threshold = 0
    /\ newArg = JSUndefined
    /\ instance = JSUndefined
    /\ givenMatrix = <<>>
    /\ calls = [call \in Calls |-> IdleCall]
    /\ heap = EmptyHeap
    /\ pc = "start"
    /\ op = "none"
    /\ result = Return(NoValue)

NextExamples ==
    \/ JaroWinklerDistanceApply
    \/ FuzzyScoreCall
    \/ JaccardSimilarityCall
    \/ JaccardDistanceCall

SpecExamples == InitExamples /\ [][NextExamples]_vars

(***************************************************************************)
(* Calls whose steps interleave.  Two calls are in progress on the two     *)
(* strings, the second with the arguments in the other order; each is one  *)
(* of apply on the default instance, limitedCompare and                    *)
(* JaroWinklerDistance.apply.  A step of a call is one iteration of its    *)
(* outer loop; what precedes the loop and what follows it is a step each.  *)
(* The locals of a call are in its record, the arrays it creates are in    *)
(* the heap, and the field of the default instance is `instance`.          *)
(***************************************************************************)
\* The arguments of a call: the second call has them in the other order.
FirstArgument(call) == IF call = "first" THEN left ELSE right

SecondArgument(call) == IF call = "first" THEN right ELSE left

\* Another call is between its first and its last step.
OtherRunning(call) ==
    \E other \in Calls \ {call} : calls[other].status = "running"

Returned(c, value) == [c EXCEPT !.status = "returned", !.result = value]

\* One iteration of the loop over mi of matches.
MatchStep(min, max, mi, matchIndexes, matchFlags) ==
    LET range2 == Range2(Len(max))
        xi2 == Max(2 * mi - range2, 0)
        xn2 == Min(2 * mi + range2 + 2, 2 * Len(max))
        found == ScanWindow(charAt(min, mi), max, matchFlags, xi2, xn2)
    IN  IF found = -1
        THEN [matchIndexes |-> matchIndexes, matchFlags |-> matchFlags]
        ELSE [matchIndexes |-> [matchIndexes EXCEPT ![mi] = found],
              matchFlags |-> matchFlags \cup {found}]

\* What matches returns once the loop over mi has ended.
MatchesAfterLoop(first, second, matchIndexes, matchFlags) ==
    LET max == IF Len(first) > Len(second) THEN first ELSE second
        min == IF Len(first) > Len(second) THEN second ELSE first
        count == Cardinality({mi \in 0..(Len(min) - 1) : matchIndexes[mi] # -1})
        ms1 == CollectMin(min, matchIndexes, 0)
        ms2 == FillMs2(CollectMax(max, matchFlags, 0), count)
        halfTranspositions ==
            Cardinality({mi \in 0..(count - 1) : ms1[mi + 1] # ms2[mi]})
        prefix == PrefixLoop(first, second, 0, Min(4, Len(min)))
    IN  [matches |-> count, halfTranspositions |-> halfTranspositions,
         prefix |-> prefix]

\* The first step of a Levenshtein call: the checks, the swap, the returns
\* for an empty operand, and the creation of p, d and matrix.
BeginLevenshtein(call, operation, k) ==
    LET first == FirstArgument(call)
        second == SecondArgument(call)
        bounded == operation = "limitedCompare" \/ instance.tag = "number"
        t == IF operation = "limitedCompare" THEN k
             ELSE IF instance.tag = "number" THEN instance.num ELSE 0
        n == Len(first)
        m == Len(second)
        swapped == n > m
        l == IF swapped THEN second ELSE first
        r == IF swapped THEN first ELSE second
        begun == [IdleCall EXCEPT !.operation = operation, !.first = first,
                                  !.second = second, !.bounded = bounded,
                                  !.threshold = t]
        pBuffer == BufferOf(call, "p")
        dBuffer == BufferOf(call, "d")
        error == IF bounded THEN LimitedPreconditions(first, second, t)
                 ELSE IF IsNullish(first) \/ IsNullish(second)
                 THEN "CharSequences must not be null"
                 ELSE ""
    IN  IF error # ""
        THEN /\ calls' = [calls EXCEPT ![call] = Returned(begun, Throw(error))]
             /\ UNCHANGED heap
        ELSE IF n = 0 \/ m = 0
        THEN /\ calls' = [calls EXCEPT ![call] =
                    Returned(begun,
                        IF bounded
                        THEN IF n = 0 THEN Return(EmptyOperand(m, m, 0, t))
                             ELSE Return(EmptyOperand(n, 0, n, t))
                        ELSE IF n = 0 THEN Return(LevenshteinResults(m, m, 0, 0))
                             ELSE Return(LevenshteinResults(n, 0, n, 0)))]
             /\ UNCHANGED heap
        ELSE /\ calls' = [calls EXCEPT ![call] =
                    [begun EXCEPT !.status = "running", !.l = l, !.r = r,
                                  !.swapped = swapped, !.index = 1,
                                  !.p = pBuffer, !.d = dBuffer]]
             /\ heap' = [heap EXCEPT
                    ![pBuffer] = IF bounded THEN LimitedInitP(Len(l), t)
                                 ELSE [i \in 0..Len(l) |-> i],
                    ![dBuffer] = IF bounded THEN LimitedInitD(Len(l))
                                 ELSE createArray(Len(l) + 1, 0),
                    ![BufferOf(call, "matrix")] = InitMatrix(Len(l), Len(r))]

\* The first step of JaroWinklerDistance.apply: the null check and, in
\* matches, the creation of matchIndexes and matchFlags.
BeginJaroWinkler(call) ==
    LET first == FirstArgument(call)
        second == SecondArgument(call)
        begun == [IdleCall EXCEPT !.operation = "JaroWinklerDistance.apply",
                                  !.first = first, !.second = second]
    IN  IF IsNullish(first) \/ IsNullish(second)
        THEN /\ calls' = [calls EXCEPT ![call] =
                    Returned(begun, Throw("CharSequences must not be null"))]
             /\ UNCHANGED heap
        ELSE /\ calls' = [calls EXCEPT ![call] =
                    [begun EXCEPT !.status = "running", !.index = 0,
                                  !.l = IF Len(first) > Len(second) THEN second ELSE first,
                                  !.r = IF Len(first) > Len(second) THEN first ELSE second]]
             /\ heap' = [heap EXCEPT
                    ![BufferOf(call, "matchIndexes")] =
                        createArray(Min(Len(first), Len(second)), -1),
                    ![BufferOf(call, "matchFlags")] = {}]

\* A call begins.
CallBegin(call) ==
    /\ calls[call].status = "idle"
    /\ \E operation \in Operations :
          IF operation = "JaroWinklerDistance.apply"
          THEN BeginJaroWinkler(call)
          ELSE \E k \in IF operation = "limitedCompare"
                        THEN 0..MaxTaskThreshold ELSE {0} :
                   BeginLevenshtein(call, operation, k)
    /\ UNCHANGED <<left, right, threshold, newArg, instance, givenMatrix,
                   pc, op, result>>

\* One iteration of the loop over j of limitedCompare or unlimitedCompare:
\* row j is computed from p into d and into the matrix, then p and d are
\* exchanged; the bounded loop returns when the stripe has run off the table.
LevenshteinRow(call) ==
    LET c == calls[call]
        j == c.index
        n == Len(c.l)
        rightJ == charAt(c.r, j - 1)
        p == heap[c.p]
        d0 == [heap[c.d] EXCEPT ![0] = j]
        matrix == heap[BufferOf(call, "matrix")]
        min == StripeMin(j, c.threshold)
        max == StripeMax(j, n, c.threshold)
        d1 == IF min > 1 THEN [d0 EXCEPT ![min - 1] = MAX_VALUE] ELSE d0
        row == IF c.bounded
               THEN LimitedInner(c.l, rightJ, p, d1, matrix, j, min, max)
               ELSE UnlimitedInner(c.l, rightJ, p, d0, matrix, j, 1, n)
    IN  /\ c.status = "running"
        /\ c.operation \in {"apply", "limitedCompare"}
        /\ j <= Len(c.r)
        /\ IF c.bounded /\ min > max
           THEN /\ calls' = [calls EXCEPT ![call] = Returned(c, Return(Sentinel))]
                /\ UNCHANGED heap
           ELSE /\ calls' = [calls EXCEPT ![call] =
                       [c EXCEPT !.index = j + 1, !.p = c.d, !.d = c.p,
                                 !.overlapped = c.overlapped \/ OtherRunning(call)]]
                /\ heap' = [heap EXCEPT
                       ![c.d] = row.d,
                       ![BufferOf(call, "matrix")] = row.matrix]
        /\ UNCHANGED <<left, right, threshold, newArg, instance, givenMatrix,
                       pc, op, result>>

\* The loop over j has ended: the bounded call checks p[n] against the
\* threshold, and the backtrace reads the matrix.
LevenshteinReturn(call) ==
    LET c == calls[call]
        matrix == heap[BufferOf(call, "matrix")]
    IN  /\ c.status = "running"
        /\ c.operation \in {"apply", "limitedCompare"}
        /\ c.index > Len(c.r)
        /\ calls' = [calls EXCEPT ![call] =
               Returned(c,
                   IF c.bounded /\ ~WithinThreshold(heap[c.p][Len(c.l)], c.threshold)
                   THEN Return(Sentinel)
                   ELSE Return(findDetailedResults(c.l, c.r, matrix, c.swapped)))]
        /\ UNCHANGED <<left, right, threshold, newArg, instance, givenMatrix,
                       pc, op, result, heap>>

\* One iteration of the loop over mi of matches.
JaroWinklerMatch(call) ==
    LET c == calls[call]
        step == MatchStep(c.l, c.r, c.index,
                          heap[BufferOf(call, "matchIndexes")],
                          heap[BufferOf(call, "matchFlags")])
    IN  /\ c.status = "running"
        /\ c.operation = "JaroWinklerDistance.apply"
        /\ c.index < Len(c.l)
        /\ calls' = [calls EXCEPT ![call] =
               [c EXCEPT !.index = c.index + 1,
                         !.overlapped = c.overlapped \/ OtherRunning(call)]]
        /\ heap' = [heap EXCEPT
               ![BufferOf(call, "matchIndexes")] = step.matchIndexes,
               ![BufferOf(call, "matchFlags")] = step.matchFlags]
        /\ UNCHANGED <<left, right, threshold, newArg, instance, givenMatrix,
                       pc, op, result>>

\* The loop over mi has ended: matches collects and counts, apply computes
\* the score.
JaroWinklerReturn(call) ==
    LET c == calls[call]
        mtp == MatchesAfterLoop(c.first, c.second,
                                heap[BufferOf(call, "matchIndexes")],
                                heap[BufferOf(call, "matchFlags")])
        m == mtp.matches
    IN  /\ c.status = "running"
        /\ c.operation = "JaroWinklerDistance.apply"
        /\ c.index >= Len(c.l)
        /\ calls' = [calls EXCEPT ![call] =
               Returned(c,
                   IF m = 0 THEN Return(Fraction(0, 1))
                   ELSE Return(WinklerScore(
                            JaroScore(m, mtp.halfTranspositions,
                                      Len(c.first), Len(c.second)),
                            mtp.prefix)))]
        /\ UNCHANGED <<left, right, threshold, newArg, instance, givenMatrix,
                       pc, op, result, heap>>

\* The module is loaded, the default instance holds no threshold, no call
\* has begun.
InitCalls ==
    /\ left \in TaskStrings
    /\ right \in TaskStrings
    /\ threshold = 0
    /\ newArg = JSUndefined
    /\ instance = JSUndefined
    /\ givenMatrix = <<>>
    /\ pc = "start"
    /\ op = "none"
    /\ result = Return(NoValue)
    /\ calls = [call \in Calls |-> IdleCall]
    /\ heap = EmptyHeap

NextCalls ==
    \/ \E call \in Calls : CallBegin(call)
    \/ \E call \in Calls : LevenshteinRow(call)
    \/ \E call \in Calls : LevenshteinReturn(call)
    \/ \E call \in Calls : JaroWinklerMatch(call)
    \/ \E call \in Calls : JaroWinklerReturn(call)

SpecCalls == InitCalls /\ [][NextCalls]_vars

(***************************************************************************)
(* Reference notions the properties are stated against.                    *)
(***************************************************************************)
\* The edit distance of the glossary: the minimum number of single-character
\* insertions, deletions and substitutions turning the first i characters of
\* a into the first j characters of b.
RECURSIVE EditPrefix(_, _, _, _)
EditPrefix(a, b, i, j) ==
    IF i = 0 THEN j
    ELSE IF j = 0 THEN i
    ELSE IF a[i] = b[j] THEN EditPrefix(a, b, i - 1, j - 1)
    ELSE 1 + Min(Min(EditPrefix(a, b, i - 1, j), EditPrefix(a, b, i, j - 1)),
                 EditPrefix(a, b, i - 1, j - 1))

EditDistance(a, b) == EditPrefix(a, b, Len(a), Len(b))

\* The bottom-right cell of the cost matrix unlimitedCompare fills for
\* (a, b); with an empty operand no matrix is built and the cell of the
\* base row or column is the other length.
ForwardCell(a, b) ==
    IF Len(a) = 0 THEN Len(b)
    ELSE IF Len(b) = 0 THEN Len(a)
    ELSE LET l == IF Len(a) > Len(b) THEN b ELSE a
             r == IF Len(a) > Len(b) THEN a ELSE b
         IN  UnlimitedMatrix(l, r)[Len(r)][Len(l)]

BothStrings == left \in Strings /\ right \in Strings

\* The call that ended was an unbounded Levenshtein computation.
UnboundedCall ==
    /\ pc = "done"
    /\ \/ op = "unlimitedCompare"
       \/ op = "apply" /\ instance.tag # "number"

\* The call that ended was a bounded one, with threshold k.
BoundedCall(k) ==
    /\ pc = "done"
    /\ \/ op = "limitedCompare" /\ threshold = k
       \/ op = "apply" /\ instance = JSNum(k)

\* The threshold of the bounded call that ended.
CallThreshold == IF op = "apply" THEN instance.num ELSE threshold

IsBoundedCall == BoundedCall(CallThreshold)

(***************************************************************************)
(* C1: the distance reported by the unbounded computation equals the       *)
(* bottom-right cell of the forward-pass cost matrix, which is the edit    *)
(* distance of left and right.                                             *)
(***************************************************************************)
C1_UnboundedDistanceIsForwardCell ==
    (UnboundedCall /\ BothStrings) =>
        /\ ~result.threw
        /\ result.value.distance = ForwardCell(left, right)
        /\ result.value.distance = EditDistance(left, right)

(***************************************************************************)
(* C2: whenever the edit distance d of left and right is within the        *)
(* threshold k >= 0, the bounded computation returns a non-sentinel result *)
(* whose distance is d (so never a distance above k).                      *)
(***************************************************************************)
C2_BoundedDistanceWithinThreshold ==
    (IsBoundedCall /\ BothStrings /\ CallThreshold >= 0
        /\ EditDistance(left, right) <= CallThreshold) =>
        /\ ~result.threw
        /\ result.value.distance = EditDistance(left, right)
        /\ result.value.distance <= CallThreshold

(***************************************************************************)
(* C3: whenever the edit distance of two strings exceeds the threshold     *)
(* k >= 0, the bounded computation returns the sentinel (-1, 0, 0, 0) as a *)
(* value, not as a raised error.                                           *)
(***************************************************************************)
C3_SentinelBeyondThreshold ==
    (IsBoundedCall /\ BothStrings /\ CallThreshold >= 0
        /\ EditDistance(left, right) > CallThreshold) =>
        /\ ~result.threw
        /\ result.value = Sentinel

\* The sentinel came out of the final check after a full forward pass: equal
\* lengths keep the stripe on the table, and the distance is above k.
C3_Witness ==
    /\ op = "limitedCompare" /\ pc = "done"
    /\ BothStrings
    /\ Len(left) = Len(right) /\ Len(left) >= 2
    /\ threshold >= 1
    /\ EditDistance(left, right) = threshold + 1
    /\ ~result.threw /\ result.value = Sentinel

(***************************************************************************)
(* C4: symmetry: the unbounded distance of (a, b) equals that of (b, a).   *)
(***************************************************************************)
C4_UnboundedSymmetry ==
    (UnboundedCall /\ BothStrings) =>
        /\ ~result.threw
        /\ ~unlimitedCompare(right, left).threw
        /\ result.value.distance = unlimitedCompare(right, left).value.distance

\* A call that swapped its operands (left longer than right, neither empty)
\* and found a positive distance.
C4_Witness ==
    /\ UnboundedCall /\ BothStrings
    /\ Len(left) > Len(right) /\ Len(right) > 0
    /\ ~result.threw /\ result.value.distance >= 2

(***************************************************************************)
(* C5: threshold monotonicity: if the bounded computation with threshold k *)
(* yields a non-sentinel distance d, it yields the same d for every        *)
(* k' >= d and the sentinel for every k' below both d and the edit         *)
(* distance.                                                               *)
(***************************************************************************)
C5_ThresholdMonotonicity ==
    (IsBoundedCall /\ BothStrings /\ CallThreshold >= 0
        /\ ~result.threw /\ result.value.distance >= 0) =>
        \A k2 \in 0..MaxThreshold :
            LET d == result.value.distance
                again == limitedCompare(left, right, k2)
            IN  /\ k2 >= d => (~again.threw /\ again.value.distance = d)
                /\ (k2 < d /\ k2 < EditDistance(left, right)) =>
                       (~again.threw /\ again.value = Sentinel)

(***************************************************************************)
(* C6: bound equivalence: with a threshold k >= max(|a|, |b|) the bounded  *)
(* computation reports the distance of the unbounded one.                  *)
(***************************************************************************)
C6_BoundEquivalence ==
    (IsBoundedCall /\ BothStrings
        /\ CallThreshold >= Max(Len(left), Len(right))) =>
        /\ ~result.threw
        /\ result.value.distance = unlimitedCompare(left, right).value.distance

\* A bounded call on two non-empty, different strings whose threshold covers
\* the longer one and whose distance reaches the threshold.
C6_Witness ==
    /\ op = "limitedCompare" /\ pc = "done"
    /\ BothStrings
    /\ Len(left) > 0 /\ Len(right) > 0
    /\ threshold >= Max(Len(left), Len(right))
    /\ ~result.threw /\ result.value.distance = threshold

(***************************************************************************)
(* C7: identity: the unbounded computation on (s, s) returns distance 0    *)
(* with insert, delete and substitute counts 0, the empty string included. *)
(***************************************************************************)
C7_Identity ==
    (UnboundedCall /\ BothStrings /\ left = right) =>
        /\ ~result.threw
        /\ result.value = LevenshteinResults(0, 0, 0, 0)

\* The backtrace walked a whole non-trivial string against itself.
C7_Witness ==
    /\ UnboundedCall /\ BothStrings
    /\ left = right /\ Len(left) >= 2
    /\ ~result.threw /\ result.value = LevenshteinResults(0, 0, 0, 0)

(***************************************************************************)
(* C8: counts consistency: every result of apply, unlimitedCompare or      *)
(* limitedCompare with distance >= 0 has distance = insertCount +          *)
(* deleteCount + substituteCount with all three counts non-negative, and   *)
(* every sentinel result (distance -1) has all three counts 0.             *)
(***************************************************************************)
C8_CountsConsistency ==
    (pc = "done" /\ op \in {"apply", "unlimitedCompare", "limitedCompare"}
        /\ ~result.threw) =>
        LET v == result.value
        IN  /\ v.distance >= -1
            /\ v.distance >= 0 =>
                  /\ v.distance = v.insertCount + v.deleteCount + v.substituteCount
                  /\ v.insertCount >= 0
                  /\ v.deleteCount >= 0
                  /\ v.substituteCount >= 0
            /\ v.distance = -1 =>
                  /\ v.insertCount = 0
                  /\ v.deleteCount = 0
                  /\ v.substituteCount = 0

\* A backtraced result of a bounded apply that mixes insertions and
\* substitutions.
C8_Witness ==
    /\ pc = "done" /\ op = "apply" /\ instance.tag = "number"
    /\ ~result.threw
    /\ result.value.insertCount > 0
    /\ result.value.substituteCount > 0

(***************************************************************************)
(* C9: empty-operand rule: with left empty the result is (|right|,         *)
(* insert = |right|, 0, 0); with right empty and left not, it is (|left|,  *)
(* 0, delete = |left|, 0); the bounded computation returns the same result *)
(* when that length is within the threshold and the sentinel otherwise,    *)
(* e.g. limitedCompare("aaapppp", "", 6) is the sentinel and threshold 7   *)
(* gives distance 7.                                                       *)
(***************************************************************************)
EmptyRuleResult ==
    IF Len(left) = 0
    THEN LevenshteinResults(Len(right), Len(right), 0, 0)
    ELSE LevenshteinResults(Len(left), 0, Len(left), 0)

C9_EmptyOperandRule ==
    /\ (UnboundedCall /\ BothStrings /\ (Len(left) = 0 \/ Len(right) = 0)) =>
          (~result.threw /\ result.value = EmptyRuleResult)
    /\ (IsBoundedCall /\ BothStrings /\ CallThreshold >= 0
          /\ (Len(left) = 0 \/ Len(right) = 0)) =>
          /\ ~result.threw
          /\ result.value = IF EmptyRuleResult.distance <= CallThreshold
                            THEN EmptyRuleResult ELSE Sentinel
    /\ limitedCompare(Aaapppp, <<>>, 6) = Return(Sentinel)
    /\ limitedCompare(Aaapppp, <<>>, 7) = Return(LevenshteinResults(7, 0, 7, 0))
    /\ unlimitedCompare(Aaapppp, <<>>) = Return(LevenshteinResults(7, 0, 7, 0))

\* A bounded call with an empty right operand whose length equals the
\* threshold: the last threshold that still returns the length.
C9_Witness ==
    /\ op = "limitedCompare" /\ pc = "done"
    /\ BothStrings
    /\ Len(right) = 0 /\ Len(left) >= 2
    /\ threshold = Len(left)
    /\ ~result.threw
    /\ result.value = LevenshteinResults(Len(left), 0, Len(left), 0)

(***************************************************************************)
(* C10: NullInput: every metric (Levenshtein limitedCompare,               *)
(* unlimitedCompare and apply, JaroWinklerDistance.apply,                  *)
(* JaccardSimilarity.apply, JaccardDistance.apply, HammingDistance.apply,  *)
(* fuzzyScore) raises an error and produces no result whenever either      *)
(* argument is null or undefined, and that check comes before any other:   *)
(* the error raised is the null check's own, whatever the other argument   *)
(* and the threshold are.                                                  *)
(***************************************************************************)
MetricOps ==
    {"apply", "limitedCompare", "unlimitedCompare", "JaroWinklerDistance.apply",
     "JaccardSimilarity.apply", "JaccardDistance.apply", "HammingDistance.apply",
     "fuzzyScore"}

\* The message of the Error each metric's null check raises.
NullMessage(o) ==
    CASE o \in {"apply", "limitedCompare", "unlimitedCompare",
                "JaroWinklerDistance.apply", "HammingDistance.apply"} ->
             "CharSequences must not be null"
      [] o \in {"JaccardSimilarity.apply", "JaccardDistance.apply"} ->
             "Input cannot be null"
      [] o = "fuzzyScore" -> "provided parameters must not be null"

AbsentArgument == left \in {Null, Undefined} \/ right \in {Null, Undefined}

C10_NullInputFailsFast ==
    (pc = "done" /\ op \in MetricOps /\ AbsentArgument) =>
        /\ result.threw
        /\ result.error = NullMessage(op)
        /\ result.value = NoValue

\* A bounded call with an undefined left argument and a negative threshold:
\* two preconditions fail and the null check is the one that raises.
C10_Witness ==
    /\ pc = "done" /\ op = "limitedCompare"
    /\ left = Undefined /\ right \in Strings /\ Len(right) >= 1
    /\ threshold < 0
    /\ result = Throw("CharSequences must not be null")

(***************************************************************************)
(* C11: InvalidThreshold: limitedCompare(left, right, k) with k < 0 raises *)
(* an error and returns no result for every pair of non-null strings,      *)
(* pairs with one or both strings empty included: the check precedes the   *)
(* empty-operand shortcut.                                                 *)
(***************************************************************************)
C11_NegativeThresholdFailsFast ==
    (pc = "done" /\ op = "limitedCompare" /\ BothStrings /\ threshold < 0) =>
        /\ result.threw
        /\ result.error = "Threshold must not be negative"
        /\ result.value = NoValue

\* A call with a negative threshold and an empty right operand, which the
\* empty-operand shortcut would have answered.
C11_Witness ==
    /\ pc = "done" /\ op = "limitedCompare"
    /\ left \in Strings /\ Len(left) >= 1
    /\ right = <<>>
    /\ threshold < 0
    /\ result = Throw("Threshold must not be negative")

(***************************************************************************)
(* C12: an instance created as new LevenshteinDetailedDistance(k) with a   *)
(* threshold k >= 0 reports getThreshold() = k and its apply(left, right)  *)
(* returns exactly the result of limitedCompare(left, right, k); creating  *)
(* it with a negative threshold raises an error; an instance created with  *)
(* no threshold uses the unbounded computation.                            *)
(***************************************************************************)
\* The instance was created with the number k and nothing has touched its
\* field since (the threshold method is only called on instances created
\* without argument).
CreatedWith(k) == pc # "start" /\ newArg = JSNum(k)

C12_ConstructedThreshold ==
    /\ \A k \in 0..MaxThreshold :
          /\ (CreatedWith(k) /\ pc = "done" /\ op = "getThreshold") =>
                 result = Return(JSNum(k))
          /\ (CreatedWith(k) /\ pc = "done" /\ op = "apply") =>
                 result = limitedCompare(left, right, k)
    /\ \A k \in Thresholds :
          (k < 0 /\ CreatedWith(k)) =>
              (pc = "done" /\ op = "new" /\ result.threw)
    /\ (pc = "done" /\ op = "apply" /\ newArg = JSUndefined
           /\ instance = JSUndefined) =>
           result = unlimitedCompare(left, right)

(***************************************************************************)
(* C13: for all non-null strings left and right,                           *)
(* JaroWinklerDistance.apply(left, right) returns a score s with           *)
(* 0 <= s <= 1.                                                            *)
(***************************************************************************)
JaroWinklerCall == pc = "done" /\ op = "JaroWinklerDistance.apply"

C13_JaroWinklerScoreInUnitInterval ==
    (JaroWinklerCall /\ BothStrings) =>
        /\ ~result.threw
        /\ result.value.den > 0
        /\ 0 <= result.value.num
        /\ result.value.num <= result.value.den

\* The upper end is attained, with a prefix bonus on offer: two equal strings
\* of even length score exactly 1.
C13_Witness ==
    /\ JaroWinklerCall /\ BothStrings
    /\ left = right /\ Len(left) >= 2
    /\ ~result.threw
    /\ result.value.num = result.value.den

(***************************************************************************)
(* C14: JaroWinklerDistance.apply returns exactly 0 whenever the match     *)
(* count is 0, in particular whenever either string is empty               *)
(* (apply("", "") = 0, apply("", "a") = 0, apply("aaapppp", "") = 0),      *)
(* without dividing by a zero length.                                      *)
(***************************************************************************)
JaroWinklerZero == Return(Fraction(0, 1))

C14_ZeroMatchesScoreZero ==
    /\ (JaroWinklerCall /\ BothStrings /\ matches(left, right).matches = 0) =>
           result = JaroWinklerZero
    /\ (JaroWinklerCall /\ BothStrings /\ (Len(left) = 0 \/ Len(right) = 0)) =>
           /\ matches(left, right).matches = 0
           /\ result = JaroWinklerZero
    /\ JaroWinklerApply(<<>>, <<>>) = JaroWinklerZero
    /\ JaroWinklerApply(<<>>, <<"a">>) = JaroWinklerZero
    /\ JaroWinklerApply(Aaapppp, <<>>) = JaroWinklerZero

\* Two non-empty strings that share a character but have no match inside
\* the window.
C14_Witness ==
    /\ JaroWinklerCall /\ BothStrings
    /\ CharSet(left) \cap CharSet(right) # {}
    /\ matches(left, right).matches = 0
    /\ result = JaroWinklerZero

(***************************************************************************)
(* C15: JaroWinklerDistance.apply reproduces, rounded to two decimals, the *)
(* documented example values: ("frog", "fog") = 0.93,                      *)
(* ("elephant", "hippo") = 0.44, ("hippo", "elephant") = 0.44,             *)
(* ("hello", "hallo") = 0.88, ("fly", "ant") = 0.0 and                     *)
(* ("hippo", "zzzzzzzz") = 0.0.                                            *)
(***************************************************************************)
\* A score rounded to two decimals, in hundredths.
RoundHundredths(f) == RoundHalfUp(100 * f.num, f.den)

\* The documented values, in hundredths.
JaroWinklerExamples ==
    {[first |-> Frog, second |-> Fog, score |-> 93],
     [first |-> Elephant, second |-> Hippo, score |-> 44],
     [first |-> Hippo, second |-> Elephant, score |-> 44],
     [first |-> Hello, second |-> Hallo, score |-> 88],
     [first |-> Fly, second |-> Ant, score |-> 0],
     [first |-> Hippo, second |-> Zzzzzzzz, score |-> 0]}

C15_DocumentedJaroWinklerValues ==
    \A e \in JaroWinklerExamples :
        (JaroWinklerCall /\ left = e.first /\ right = e.second) =>
            /\ ~result.threw
            /\ RoundHundredths(result.value) = e.score

(***************************************************************************)
(* C16: in JaroWinklerDistance.matches the matching window half-width is   *)
(* the integer range = max(floor(|max| / 2) - 1, 0), and a character at    *)
(* index i of the shorter string can only be matched to an index x of the  *)
(* longer string with i - range <= x <= i + range, for every length of the *)
(* longer string, odd or even.                                             *)
(***************************************************************************)
\* The longer and the shorter argument as matches picks them, and the
\* (doubled) index in max each character of min was matched to, -1 for none.
MaxOf(first, second) == IF Len(first) > Len(second) THEN first ELSE second

MinOf(first, second) == IF Len(first) > Len(second) THEN second ELSE first

MatchIndexes(first, second) ==
    MatchLoop(MinOf(first, second), MaxOf(first, second), 0,
              createArray(Len(MinOf(first, second)), -1), {}).matchIndexes

C16_IntegerMatchingWindow ==
    (JaroWinklerCall /\ BothStrings) =>
        LET maxLength == Len(MaxOf(left, right))
            range == Max((maxLength \div 2) - 1, 0)
            matchIndexes == MatchIndexes(left, right)
        IN  /\ Range2(maxLength) = 2 * range
            /\ \A i \in DOMAIN matchIndexes :
                   matchIndexes[i] # -1 =>
                       /\ i - range <= matchIndexes[i] \div 2
                       /\ matchIndexes[i] \div 2 <= i + range

(***************************************************************************)
(* C17: the Jaro core is symmetric: for all strings a and b, matches(a, b) *)
(* and matches(b, a) yield the same match count and the same               *)
(* half-transposition count, so the un-boosted Jaro score does not depend  *)
(* on argument order, also when |a| = |b|, where the roles of min and max  *)
(* exchange.                                                               *)
(***************************************************************************)
C17_JaroCoreSymmetry ==
    (JaroWinklerCall /\ BothStrings) =>
        /\ matches(left, right).matches = matches(right, left).matches
        /\ matches(left, right).halfTranspositions
               = matches(right, left).halfTranspositions

(***************************************************************************)
(* C18: ranking by Jaro-Winkler: for the query 'geU' and the candidates    *)
(* getUser, getFirstName, getUsers, getAll, assignUserToGroup, box, unbox, *)
(* the score apply('geU', 'getUser') is at least the score of every other  *)
(* candidate, so sorting by descending score puts getUser first.           *)
(***************************************************************************)
\* f <= g for two fractions with positive denominators.
FractionLeq(f, g) == f.num * g.den <= g.num * f.den

\* getUser comes first in the stable ascending sort of the negated scores
\* when no other command scores strictly higher: it is the first command of
\* the list.
C18_GetUserRanksFirst ==
    (JaroWinklerCall /\ left = GeU /\ right \in Commands) =>
        /\ ~result.threw
        /\ ~JaroWinklerApply(GeU, GetUser).threw
        /\ FractionLeq(result.value, JaroWinklerApply(GeU, GetUser).value)

\* The call on the runner-up, getUsers, which scores above 0.8 and still
\* below getUser.
C18_Witness ==
    /\ JaroWinklerCall /\ left = GeU /\ right = GetUsers
    /\ ~result.threw
    /\ 5 * result.value.num > 4 * result.value.den
    /\ ~FractionLeq(JaroWinklerApply(GeU, GetUser).value, result.value)

(***************************************************************************)
(* C19: fuzzyScore(term, query) equals one point for every query character *)
(* matched in order (case-insensitively) in term, plus two bonus points    *)
(* for each match located at the term index immediately following the      *)
(* previous match; the first match never earns a bonus, so e.g.            *)
(* fuzzyScore("Room", "o") = 1, fuzzyScore("Workshop", "w") = 1,           *)
(* fuzzyScore("Workshop", "ws") = 2 and fuzzyScore("Workshop", "wo") = 4.  *)
(***************************************************************************)
FuzzyCall == pc = "done" /\ op = "fuzzyScore"

\* The index of the first occurrence of c in term at or after termIndex, or
\* -1 when there is none.
FirstMatchFrom(term, c, termIndex) ==
    LET found == {x \in termIndex..(Len(term) - 1) : charAt(term, x) = c}
    IN  IF found = {} THEN -1
        ELSE CHOOSE x \in found : \A y \in found : x <= y

\* The score as stated: hasPrevious is FALSE until the first match.
RECURSIVE StatedFuzzyScore(_, _, _, _, _, _)
StatedFuzzyScore(term, query, queryIndex, termIndex, hasPrevious, previous) ==
    IF ~(queryIndex < Len(query)) THEN 0
    ELSE LET x == FirstMatchFrom(term, charAt(query, queryIndex), termIndex)
         IN  IF x = -1 THEN 0
             ELSE 1 + (IF hasPrevious /\ previous + 1 = x THEN 2 ELSE 0)
                    + StatedFuzzyScore(term, query, queryIndex + 1, x + 1,
                                       TRUE, x)

\* The documented values.
FuzzyExamples ==
    {[term |-> Room, query |-> <<"o">>, score |-> 1],
     [term |-> Workshop, query |-> <<"w">>, score |-> 1],
     [term |-> Workshop, query |-> <<"w", "s">>, score |-> 2],
     [term |-> Workshop, query |-> <<"w", "o">>, score |-> 4]}

C19_FuzzyScoreAsStated ==
    /\ (FuzzyCall /\ left \in ExampleWords /\ right \in ExampleWords) =>
           result = Return(StatedFuzzyScore(toLowerCase(left), toLowerCase(right),
                                            0, 0, FALSE, 0))
    /\ \A e \in FuzzyExamples :
           (FuzzyCall /\ left = e.term /\ right = e.query) =>
               result = Return(e.score)

(***************************************************************************)
(* C20: HammingDistance.apply(left, right) raises an error and returns no  *)
(* distance whenever |left| # |right|; for equal lengths it returns        *)
(* exactly the number of index positions at which the two strings differ,  *)
(* 0 for two empty strings.                                                *)
(***************************************************************************)
HammingCall == pc = "done" /\ op = "HammingDistance.apply"

\* The number of positions at which two strings of equal length differ.
RECURSIVE DifferingPositions(_, _)
DifferingPositions(a, b) ==
    IF a = <<>> THEN 0
    ELSE (IF Head(a) # Head(b) THEN 1 ELSE 0)
             + DifferingPositions(Tail(a), Tail(b))

C20_HammingLengthMismatch ==
    /\ (HammingCall /\ BothStrings /\ Len(left) # Len(right)) =>
           /\ result.threw
           /\ result.error = "CharSequences must have the same length"
           /\ result.value = NoValue
    /\ (HammingCall /\ BothStrings /\ Len(left) = Len(right)) =>
           result = Return(DifferingPositions(left, right))
    /\ (HammingCall /\ left = <<>> /\ right = <<>>) => result = Return(0)

\* A call on a string and a proper prefix of it: no position differs where
\* both have a character, and the call still raises.
C20_Witness ==
    /\ HammingCall /\ BothStrings
    /\ Len(right) >= 1 /\ Len(left) > Len(right)
    /\ SubSeq(left, 1, Len(right)) = right
    /\ result = Throw("CharSequences must have the same length")

(***************************************************************************)
(* C21: JaccardSimilarity.apply(a, b) is                                   *)
(* |chars(a) \cap chars(b)| / |chars(a) \cup chars(b)| rounded to two      *)
(* decimals (0 when either string is empty), and JaccardDistance.apply(a,  *)
(* b) is its complement: in hundredths, distance = 100 - similarity for    *)
(* all strings a, b.                                                       *)
(***************************************************************************)
JaccardSimilarityDone == pc = "done" /\ op = "JaccardSimilarity.apply"

JaccardDistanceDone == pc = "done" /\ op = "JaccardDistance.apply"

BothStringValues == left \notin {Null, Undefined} /\ right \notin {Null, Undefined}

\* The similarity as stated, in hundredths.
StatedJaccardSimilarity(a, b) ==
    IF a = <<>> \/ b = <<>> THEN 0
    ELSE RoundHalfUp(100 * Cardinality({c \in CharSet(a) : c \in CharSet(b)}),
                     Cardinality({c \in CharSet(a) \cup CharSet(b) : TRUE}))

C21_JaccardComplement ==
    /\ (JaccardSimilarityDone /\ BothStringValues) =>
           result = Return(StatedJaccardSimilarity(left, right))
    /\ (JaccardDistanceDone /\ BothStringValues) =>
           result = Return(100 - StatedJaccardSimilarity(left, right))

\* A distance whose similarity was rounded: elephant and hippo share 2 of 9
\* characters, 0.22 after rounding, and the distance is 0.78.
C21_Witness ==
    /\ JaccardDistanceDone
    /\ left = Elephant /\ right = Hippo
    /\ result = Return(100 - RoundHalfUp(200, 9))
    /\ RoundHalfUp(200, 9) * 9 # 200

(***************************************************************************)
(* C22: swapping the operands for memory efficiency does not change the    *)
(* reported counts: for all strings a and b, unbounded apply(a, b) and     *)
(* apply(b, a) report the same substituteCount, and                        *)
(* apply(a, b).insertCount = apply(b, a).deleteCount and                   *)
(* apply(a, b).deleteCount = apply(b, a).insertCount.                      *)
(***************************************************************************)
C22_SwapKeepsCounts ==
    (UnboundedCall /\ BothStrings) =>
        LET reverse == unlimitedCompare(right, left)
        IN  /\ ~result.threw
            /\ ~reverse.threw
            /\ result.value.substituteCount = reverse.value.substituteCount
            /\ result.value.insertCount = reverse.value.deleteCount
            /\ result.value.deleteCount = reverse.value.insertCount

\* A call that swapped its operands and reports deletions next to
\* substitutions.
C22_Witness ==
    /\ UnboundedCall /\ BothStrings
    /\ Len(left) > Len(right) /\ Len(right) >= 2
    /\ ~result.threw
    /\ result.value.deleteCount >= 1
    /\ result.value.substituteCount >= 1

(***************************************************************************)
(* C23: counts are relative to the original arguments: for every           *)
(* non-sentinel result of apply, unlimitedCompare or limitedCompare on     *)
(* (left, right), insertCount - deleteCount = |right| - |left|, on both    *)
(* the swapped (|left| > |right|) and the unswapped path.                  *)
(***************************************************************************)
LevenshteinCall ==
    pc = "done" /\ op \in {"apply", "unlimitedCompare", "limitedCompare"}

C23_CountsRelativeToArguments ==
    (LevenshteinCall /\ BothStrings /\ ~result.threw
        /\ result.value.distance >= 0) =>
        result.value.insertCount - result.value.deleteCount
            = Len(right) - Len(left)

\* A bounded call on the swapped path that is not the sentinel: it reports
\* the surplus of left as deletions, next to a substitution.
C23_Witness ==
    /\ pc = "done" /\ op = "limitedCompare"
    /\ BothStrings
    /\ Len(left) > Len(right) /\ Len(right) >= 1
    /\ ~result.threw /\ result.value.distance >= 0
    /\ result.value.substituteCount >= 1
    /\ result.value.deleteCount = Len(left) - Len(right)
    /\ result.value.insertCount = 0

(***************************************************************************)
(* C24: backtrace tie-breaking: in findDetailedResults, at a cell whose    *)
(* characters differ, a predecessor qualifies when its value is exactly    *)
(* current - 1 and it is less-or-equal to the other two candidates; when   *)
(* both the left and the top predecessor qualify the left move is taken    *)
(* (delete if not swapped, insert if swapped), the top move is taken only  *)
(* when left does not qualify, and the diagonal (substitute) is taken only *)
(* when neither directional predecessor qualifies.                         *)
(***************************************************************************)
\* A predecessor qualifies: it is on the matrix, its value is data - 1 and
\* no other predecessor on the matrix is smaller.
Qualifies(data, candidate, other1, other2) ==
    /\ candidate # -1
    /\ candidate = data - 1
    /\ (other1 = -1 \/ candidate <= other1)
    /\ (other2 = -1 \/ candidate <= other2)

\* The move as stated, at a cell whose characters differ.
StatedMove(matrix, s) ==
    LET dataAtLeft == DataAtLeft(matrix, s.rowIndex, s.columnIndex)
        dataAtTop == DataAtTop(matrix, s.rowIndex, s.columnIndex)
        dataAtDiagonal == DataAtDiagonal(matrix, s.rowIndex, s.columnIndex)
        data == matrix[s.rowIndex][s.columnIndex]
    IN  IF Qualifies(data, dataAtLeft, dataAtTop, dataAtDiagonal) THEN "left"
        ELSE IF Qualifies(data, dataAtTop, dataAtLeft, dataAtDiagonal) THEN "top"
        ELSE "diagonal"

\* Along the walk of the backtrace from s on, every cell whose characters
\* differ is left by the stated move.
RECURSIVE WalkFollowsStatedOrder(_, _, _, _)
WalkFollowsStatedOrder(l, r, matrix, s) ==
    IF ~BacktraceRunning(matrix, s) THEN TRUE
    ELSE /\ BacktraceMove(l, r, matrix, s) # "match" =>
                BacktraceMove(l, r, matrix, s) = StatedMove(matrix, s)
         /\ WalkFollowsStatedOrder(l, r, matrix,
                                   BacktraceStep(l, r, matrix, FALSE, s))

\* The operands as the computations hand them to the backtrace.
ShorterOperand == IF Len(left) > Len(right) THEN right ELSE left

LongerOperand == IF Len(left) > Len(right) THEN left ELSE right

BacktraceStart(l, r) ==
    [rowIndex |-> Len(r), columnIndex |-> Len(l),
     addCount |-> 0, delCount |-> 0, subCount |-> 0]

C24_BacktraceTieBreaking ==
    (UnboundedCall /\ BothStrings /\ Len(left) > 0 /\ Len(right) > 0) =>
        WalkFollowsStatedOrder(ShorterOperand, LongerOperand,
                               UnlimitedMatrix(ShorterOperand, LongerOperand),
                               BacktraceStart(ShorterOperand, LongerOperand))

(***************************************************************************)
(* C25: in bounded mode, every cell of the retained cost matrix that the   *)
(* backtrace reads is either the true DP value of that cell or the large   *)
(* infinity sentinel: cells outside the computed diagonal band (other than *)
(* row 0 and column 0) never hold a stale or default value that is smaller *)
(* than an in-band neighbour.                                              *)
(***************************************************************************)
\* The cell (rowIndex, columnIndex) holds the edit distance of the prefixes
\* it stands for, or the sentinel for infinity.
CellSound(l, r, matrix, rowIndex, columnIndex) ==
    \/ matrix[rowIndex][columnIndex] = EditPrefix(l, r, columnIndex, rowIndex)
    \/ matrix[rowIndex][columnIndex] >= MAX_VALUE

\* The reads of one iteration of the backtrace at s.
ReadsSound(l, r, matrix, s) ==
    /\ CellSound(l, r, matrix, s.rowIndex, s.columnIndex)
    /\ s.columnIndex > 0 =>
           CellSound(l, r, matrix, s.rowIndex, s.columnIndex - 1)
    /\ s.rowIndex > 0 =>
           CellSound(l, r, matrix, s.rowIndex - 1, s.columnIndex)
    /\ (s.rowIndex > 0 /\ s.columnIndex > 0) =>
           CellSound(l, r, matrix, s.rowIndex - 1, s.columnIndex - 1)

RECURSIVE WalkReadsSound(_, _, _, _)
WalkReadsSound(l, r, matrix, s) ==
    IF ~BacktraceRunning(matrix, s) THEN TRUE
    ELSE /\ ReadsSound(l, r, matrix, s)
         /\ WalkReadsSound(l, r, matrix, BacktraceStep(l, r, matrix, FALSE, s))

\* The bounded call that ended went through the backtrace: both operands
\* are non-empty, the stripe stayed on the table and p[n] passed the check.
BoundedBacktrace ==
    /\ IsBoundedCall /\ BothStrings /\ CallThreshold >= 0
    /\ Len(left) > 0 /\ Len(right) > 0
    /\ LET fwd == LimitedForward(ShorterOperand, LongerOperand, CallThreshold)
       IN  /\ ~fwd.offTable
           /\ WithinThreshold(fwd.p[Len(ShorterOperand)], CallThreshold)

C25_BandCellsSound ==
    BoundedBacktrace =>
        WalkReadsSound(ShorterOperand, LongerOperand,
                       LimitedForward(ShorterOperand, LongerOperand,
                                      CallThreshold).matrix,
                       BacktraceStart(ShorterOperand, LongerOperand))

(***************************************************************************)
(* C26: findDetailedResults terminates for every pair of strings and every *)
(* (|right| + 1) x (|left| + 1) matrix: each loop iteration strictly       *)
(* decreases rowIndex + columnIndex, neither index ever becomes negative,  *)
(* every matrix read is within bounds, and the loop stops exactly at       *)
(* (0, 0) after at most |left| + |right| iterations.                       *)
(***************************************************************************)
\* The reads of one iteration at s are cells of the matrix.
ReadsInBounds(l, r, s) ==
    /\ s.rowIndex \in 0..Len(r)
    /\ s.columnIndex \in 0..Len(l)

\* From s on, with `iterations` iterations made so far: every iteration
\* reads inside the matrix and decreases rowIndex + columnIndex while
\* keeping both indices non-negative, and the walk ends at (0, 0) within
\* |l| + |r| iterations.
RECURSIVE WalkTerminates(_, _, _, _, _)
WalkTerminates(l, r, matrix, s, iterations) ==
    IF ~BacktraceRunning(matrix, s)
    THEN /\ s.rowIndex = 0
         /\ s.columnIndex = 0
         /\ iterations <= Len(l) + Len(r)
    ELSE LET next == BacktraceStep(l, r, matrix, FALSE, s)
         IN  /\ ReadsInBounds(l, r, s)
             /\ next.rowIndex >= 0
             /\ next.columnIndex >= 0
             /\ next.rowIndex + next.columnIndex < s.rowIndex + s.columnIndex
             /\ iterations < Len(l) + Len(r)
             /\ WalkTerminates(l, r, matrix, next, iterations + 1)

\* The call that ended was findDetailedResults itself.
DirectBacktrace == pc = "done" /\ op = "findDetailedResults"

\* The call that ended ran the backtrace, directly or at the end of one of
\* the two computations.
BacktraceRan ==
    \/ DirectBacktrace
    \/ /\ UnboundedCall \/ BoundedBacktrace
       /\ BothStrings /\ Len(left) > 0 /\ Len(right) > 0

\* The strings and the matrix the backtrace of that call was given.
WalkedLeft == IF DirectBacktrace THEN left ELSE ShorterOperand

WalkedRight == IF DirectBacktrace THEN right ELSE LongerOperand

WalkedMatrix ==
    IF DirectBacktrace THEN givenMatrix
    ELSE IF IsBoundedCall
    THEN LimitedForward(ShorterOperand, LongerOperand, CallThreshold).matrix
    ELSE UnlimitedMatrix(ShorterOperand, LongerOperand)

\* Every cell holds a cost: no cell holds the -1 by which the backtrace
\* marks a predecessor as off the matrix.
HoldsCosts(matrix) ==
    \A rowIndex \in DOMAIN matrix :
        \A columnIndex \in DOMAIN matrix[rowIndex] :
            matrix[rowIndex][columnIndex] >= 0

\* The statement as made, for every matrix.
C26_BacktraceTerminates ==
    BacktraceRan =>
        WalkTerminates(WalkedLeft, WalkedRight, WalkedMatrix,
                       BacktraceStart(WalkedLeft, WalkedRight), 0)

\* C26, amended: the statement holds for every matrix whose cells hold
\* costs (no cell is -1), as the matrices of both computations do, cells
\* outside the band included; a -1 inside the matrix is read as "off the
\* matrix" and can stop the walk before (0, 0).
C26_BacktraceTerminatesOnCosts ==
    (BacktraceRan /\ HoldsCosts(WalkedMatrix)) =>
        WalkTerminates(WalkedLeft, WalkedRight, WalkedMatrix,
                       BacktraceStart(WalkedLeft, WalkedRight), 0)

\* A direct call on a cost matrix with one cell overwritten by 0 whose walk
\* is not the walk over the true costs.
C26_Witness ==
    /\ DirectBacktrace
    /\ Len(left) >= 2 /\ Len(right) >= 2
    /\ HoldsCosts(givenMatrix)
    /\ givenMatrix # UnlimitedMatrix(left, right)
    /\ result.value.distance
           # findDetailedResults(left, right, UnlimitedMatrix(left, right),
                                 FALSE).distance

(***************************************************************************)
(* C27: in JaroWinklerDistance.matches each position of the longer string  *)
(* is marked used by at most one position of the shorter string, and the   *)
(* two collected matched-character sequences (from min and from max, in    *)
(* original order) both contain exactly `matches` characters;              *)
(* consequently halfTranspositions <= matches <= |min|.                    *)
(***************************************************************************)
\* The flags matches sets on max (doubled indices) for first and second.
MatchFlags(first, second) ==
    MatchLoop(MinOf(first, second), MaxOf(first, second), 0,
              createArray(Len(MinOf(first, second)), -1), {}).matchFlags

\* The position of max whose character charAt read at a matched index.
MatchedPosition(matchIndex) == matchIndex \div 2

C27_MatchesOneToOne ==
    (JaroWinklerCall /\ BothStrings) =>
        LET min == MinOf(left, right)
            max == MaxOf(left, right)
            matchIndexes == MatchIndexes(left, right)
            mtp == matches(left, right)
        IN  /\ \A i, k \in DOMAIN matchIndexes :
                   (/\ i # k
                    /\ matchIndexes[i] # -1
                    /\ matchIndexes[k] # -1)
                   => MatchedPosition(matchIndexes[i])
                          # MatchedPosition(matchIndexes[k])
            /\ Len(CollectMin(min, matchIndexes, 0)) = mtp.matches
            /\ Len(CollectMax(max, MatchFlags(left, right), 0)) = mtp.matches
            /\ mtp.halfTranspositions <= mtp.matches
            /\ mtp.matches <= Len(min)

\* The part of C27 stated as the consequence, on its own.
C27_CountsOrdered ==
    (JaroWinklerCall /\ BothStrings) =>
        /\ matches(left, right).halfTranspositions <= matches(left, right).matches
        /\ matches(left, right).matches <= Len(MinOf(left, right))

(***************************************************************************)
(* C28: Winkler adjustment: with j the Jaro score and p the common-prefix  *)
(* length (0 <= p <= 4, counted over equal leading characters), apply      *)
(* returns j + 0.1 * p * (1 - j) when j >= 0.7 and returns j unchanged     *)
(* when j < 0.7; hence the returned score is never below j.                *)
(***************************************************************************)
\* The Jaro score of the call's strings from the counts matches returns;
\* 0 when nothing matched.
CallJaroScore ==
    LET mtp == matches(left, right)
    IN  IF mtp.matches = 0 THEN Fraction(0, 1)
        ELSE JaroScore(mtp.matches, mtp.halfTranspositions,
                       Len(left), Len(right))

\* The number of equal leading characters of the call's strings, at most 4.
CommonPrefix ==
    LET leading == {k \in 0..Min(Len(left), Len(right)) :
                       \A i \in 1..k : left[i] = right[i]}
        longest == CHOOSE k \in leading : \A other \in leading : other <= k
    IN  Min(longest, 4)

\* f <= g for two non-negative fractions with positive denominators,
\* compared by their integer parts and then by the reciprocals of their
\* remainders, so that no product of the two denominators is formed.
RECURSIVE FractionLeqByQuotients(_, _)
FractionLeqByQuotients(f, g) ==
    IF f.num \div f.den # g.num \div g.den
    THEN f.num \div f.den < g.num \div g.den
    ELSE IF f.num % f.den = 0 THEN TRUE
    ELSE IF g.num % g.den = 0 THEN FALSE
    ELSE FractionLeqByQuotients(Fraction(g.den, g.num % g.den),
                                Fraction(f.den, f.num % f.den))

\* f = g for two such fractions.
FractionEq(f, g) ==
    FractionLeqByQuotients(f, g) /\ FractionLeqByQuotients(g, f)

C28_WinklerAdjustment ==
    (JaroWinklerCall /\ BothStringValues) =>
        LET j == CallJaroScore
            p == CommonPrefix
        IN  /\ ~result.threw
            /\ IF 10 * j.num >= 7 * j.den
               THEN FractionEq(result.value,
                               Fraction(10 * j.num + p * (j.den - j.num),
                                        10 * j.den))
               ELSE FractionEq(result.value, j)
            /\ FractionLeqByQuotients(j, result.value)

\* A call that was raised by the full bonus: more than four equal leading
\* characters and a Jaro score of at least 0.7 below 1.
C28_Witness ==
    /\ JaroWinklerCall /\ BothStringValues
    /\ Len(left) > 4 /\ Len(right) > 4
    /\ \A i \in 1..5 : left[i] = right[i]
    /\ 10 * CallJaroScore.num >= 7 * CallJaroScore.den
    /\ CallJaroScore.num < CallJaroScore.den
    /\ ~FractionLeqByQuotients(result.value, CallJaroScore)

\* A call with equal leading characters whose Jaro score is below 0.7 and
\* is returned unchanged.
C28_WitnessBelowThreshold ==
    /\ JaroWinklerCall /\ BothStringValues
    /\ CommonPrefix > 0
    /\ 10 * CallJaroScore.num < 7 * CallJaroScore.den
    /\ FractionEq(result.value, CallJaroScore)

(***************************************************************************)
(* C30: Jaro-Winkler identity: for every non-empty string s (of odd or     *)
(* even length), JaroWinklerDistance.apply(s, s) returns exactly 1, i.e.   *)
(* every character is matched to its own position with zero                *)
(* half-transpositions.                                                    *)
(***************************************************************************)
C30_JaroWinklerIdentity ==
    (JaroWinklerCall /\ BothStrings /\ left = right /\ Len(left) > 0) =>
        /\ ~result.threw
        /\ result.value.num = result.value.den
        /\ \A i \in DOMAIN MatchIndexes(left, right) :
               MatchIndexes(left, right)[i] = 2 * i
        /\ matches(left, right).halfTranspositions = 0

\* The identity for the strings of even length and of length 1, for which
\* the matching window is a whole number.
C30_IdentityWholeWindow ==
    (/\ JaroWinklerCall /\ BothStrings /\ left = right /\ Len(left) > 0
     /\ Len(left) % 2 = 0 \/ Len(left) = 1) =>
        /\ ~result.threw
        /\ result.value.num = result.value.den
        /\ matches(left, right).halfTranspositions = 0

(***************************************************************************)
(* C29: concurrent invocations are independent: for any interleaving of    *)
(* the steps of two or more calls to Levenshtein apply/limitedCompare or   *)
(* JaroWinklerDistance.apply (including calls on the shared default        *)
(* instance), each call returns the same result it returns when run alone, *)
(* because no call reads or writes a working buffer (rows, matrix, match   *)
(* arrays) or field written by another.                                    *)
(***************************************************************************)
\* What the call returns when it runs from its first step to its last with
\* no step of another call in between.
ResultAlone(c) ==
    IF c.operation = "apply" THEN apply(instance, c.first, c.second)
    ELSE IF c.operation = "limitedCompare"
    THEN limitedCompare(c.first, c.second, c.threshold)
    ELSE JaroWinklerApply(c.first, c.second)

C29_InterleavedCallsIndependent ==
    \A call \in Calls :
        calls[call].status = "returned" =>
            calls[call].result = ResultAlone(calls[call])

\* C29, the stated cause: a step of a call leaves the arrays of every other
\* call and the field of the default instance as they are.
C29_StepsKeepToOwnBuffers ==
    [][\A call \in Calls :
           calls'[call] # calls[call] =>
               /\ instance' = instance
               /\ \A other \in Calls \ {call} : \A name \in BufferNames :
                      heap'[<<other, name>>] = heap[<<other, name>>]]_vars

\* Both calls have returned, two Levenshtein computations with different
\* results, and each made a step of its loop while the other was running.
C29_Witness ==
    /\ \A call \in Calls :
           /\ calls[call].status = "returned"
           /\ calls[call].overlapped
    /\ calls["first"].operation = "limitedCompare"
    /\ calls["second"].operation = "apply"
    /\ calls["first"].result # calls["second"].result

====
